---- MODULE Spec2Model ----
(***************************************************************************)
(* Model of pkg/sql/catalog/schemadesc/schema_desc.go: the Mutable and     *)
(* Immutable schema descriptors.                                           *)
(*                                                                         *)
(* A descpb.SchemaDescriptor is a struct value; its DrainingNames field is *)
(* a Go slice, that is a (pointer, length, capacity) header into a backing *)
(* array.  Copying the struct copies the header and shares the array;      *)
(* protoutil.Clone allocates a new array.  The backing arrays live in      *)
(* heap, so sharing between the caller's record, the working copy, the     *)
(* ClusterVersion and published copies is what the code makes it.          *)
(***************************************************************************)
EXTENDS Integers, Sequences, FiniteSets, TLC

\* ------------------------------------------------------------------ bounds
\* Width in bits of the model's descpb.DescriptorVersion (the program's is
\* an unsigned fixed-width integer; the model keeps the wrap-around).
VersionBits == 2
\* Number of calls made after the constructor in one behaviour.
MaxCalls == 4
\* Number of commits accepted by the transaction layer.
MaxCommits == 2
\* Number of calls one transaction makes on its Mutable.
MaxTxnCalls == 2
\* Longest candidate name given to IsSchemaNameValid.
MaxNameLen == 4
\* Number of ALTER TABLE ... OWNER TO statements issued.
MaxAlters == 2

\* ------------------------------------------------------- program constants
\* keys.RootNamespaceID
RootNamespaceID == 0
\* descpb.InvalidID
InvalidID == 0

VersionModulus == 2 ^ VersionBits
Versions == 0 .. (VersionModulus - 1)
\* v + 1 in descpb.DescriptorVersion
IncVersion(v) == (v + 1) % VersionModulus

\* hlc.Timestamp{} is the unset timestamp.
ZeroTimestamp == 0

Names == {"s", "t"}
RecordNames == {"s"}
IDs == {InvalidID, 52}
ParentIDs == {7}
Timestamps == {9}
\* Versions a record handed to a constructor may carry.
RecordVersions == {0, 1, VersionModulus - 1}

\* descpb.NameInfo
NameInfo(parentID, parentSchemaID, name) ==
  [ParentID |-> parentID, ParentSchemaID |-> parentSchemaID, Name |-> name]
ZeroNameInfo == NameInfo(0, 0, "")

\* ------------------------------------------------------------- Go slices
NilSlice == [ptr |-> 0, len |-> 0, cap |-> 0]

\* The elements a slice header s shows in heap h.
Elems(s, h) == IF s.len = 0 THEN <<>> ELSE SubSeq(h[s.ptr], 1, s.len)

\* Capacity append gives the new backing array when the old one is full.
GrowCap(c) == IF c = 0 THEN 1 ELSE 2 * c

\* append(s, e): writes in place when capacity is left, else moves the
\* elements to a new, larger backing array.
GoAppend(s, h, e) ==
  IF s.len < s.cap
  THEN [slice |-> [s EXCEPT !.len = s.len + 1],
        heap |-> [h EXCEPT ![s.ptr][s.len + 1] = e]]
  ELSE LET c == GrowCap(s.cap)
           arr == [i \in 1 .. c |->
                     IF i <= s.len THEN h[s.ptr][i]
                     ELSE IF i = s.len + 1 THEN e ELSE ZeroNameInfo]
       IN [slice |-> [ptr |-> Len(h) + 1, len |-> s.len + 1, cap |-> c],
           heap |-> Append(h, arr)]

RECURSIVE CapAfter(_)
\* Capacity of a slice built by n appends to a nil slice.
CapAfter(n) ==
  IF n = 0 THEN 0
  ELSE LET c == CapAfter(n - 1) IN IF n <= c THEN c ELSE GrowCap(c)

\* A fresh slice holding the elements seq (nil when there are none).
NewSlice(seq, h) ==
  IF Len(seq) = 0
  THEN [slice |-> NilSlice, heap |-> h]
  ELSE LET c == CapAfter(Len(seq))
           arr == [i \in 1 .. c |-> IF i <= Len(seq) THEN seq[i] ELSE ZeroNameInfo]
       IN [slice |-> [ptr |-> Len(h) + 1, len |-> Len(seq), cap |-> c],
           heap |-> Append(h, arr)]

\* -------------------------------------------------------- descriptors
\* descpb.SchemaDescriptor as a struct value.
SchemaDescriptor(name, id, parentID, version, modTime, drainingNames) ==
  [Name |-> name, ID |-> id, ParentID |-> parentID, Version |-> version,
   ModificationTime |-> modTime, DrainingNames |-> drainingNames]

\* A nil *Immutable.
NilImmutable == [nil |-> TRUE]

\* What a descriptor d reads as in heap h: its fields, with the elements of
\* DrainingNames in place of the slice header.
View(d, h) == [d EXCEPT !.DrainingNames = Elems(d.DrainingNames, h)]

\* protoutil.Clone of a descriptor: a deep copy with its own backing array.
Clone(d, h) ==
  LET s == NewSlice(Elems(d.DrainingNames, h), h)
  IN [desc |-> [d EXCEPT !.DrainingNames = s.slice], heap |-> s.heap]

\* makeImmutable / NewImmutable: wrap the struct value as given.
makeImmutable(d) == d
NewImmutable(d) == makeImmutable(d)

\* NewMutableExisting(desc)
NewMutableExisting(d, h) ==
  LET c == Clone(d, h)
  IN [mut |-> [desc |-> makeImmutable(c.desc), ClusterVersion |-> NewImmutable(d)],
      heap |-> c.heap]

\* NewMutableCreatedSchemaDescriptor(desc)
NewMutableCreatedSchemaDescriptor(d, h) ==
  [mut |-> [desc |-> makeImmutable(d), ClusterVersion |-> NilImmutable],
   heap |-> h]

\* (*Mutable).SetDrainingNames(names)
SetDrainingNamesAppending(m, h, names) ==
  LET s == NewSlice(Elems(m.desc.DrainingNames, h) \o Elems(names, h), h)
  IN [mut |-> [m EXCEPT !.desc.DrainingNames = s.slice], heap |-> s.heap]
SetDrainingNames(m, h, names) ==
  [mut |-> [m EXCEPT !.desc.DrainingNames = names], heap |-> h]

\* (*Mutable).MaybeIncrementVersion()
MaybeIncrementVersionAlways(m) ==
  IF m.ClusterVersion = NilImmutable THEN m
  ELSE [m EXCEPT !.desc.Version = IncVersion(m.desc.Version),
                 !.desc.ModificationTime = ZeroTimestamp]
MaybeIncrementVersionOffByOne(m) ==
  IF m.ClusterVersion = NilImmutable
     \/ m.desc.Version = m.ClusterVersion.Version
  THEN m
  ELSE [m EXCEPT !.desc.Version = IncVersion(m.desc.Version),
                 !.desc.ModificationTime = ZeroTimestamp]
MaybeIncrementVersionNoNilCheck(m) ==
  IF m.ClusterVersion # NilImmutable
     /\ m.desc.Version = IncVersion(m.ClusterVersion.Version)
  THEN m
  ELSE [m EXCEPT !.desc.Version = IncVersion(m.desc.Version),
                 !.desc.ModificationTime = ZeroTimestamp]
MaybeIncrementVersionAtLeast(m) ==
  IF m.ClusterVersion = NilImmutable
     \/ m.desc.Version >= m.ClusterVersion.Version + 1
  THEN m
  ELSE [m EXCEPT !.desc.Version = IncVersion(m.desc.Version),
                 !.desc.ModificationTime = ZeroTimestamp]
MaybeIncrementVersionKeepsTime(m) ==
  IF m.ClusterVersion = NilImmutable
     \/ m.desc.Version = IncVersion(m.ClusterVersion.Version)
  THEN m
  ELSE [m EXCEPT !.desc.Version = IncVersion(m.desc.Version)]
MaybeIncrementVersion(m) ==
  IF m.ClusterVersion = NilImmutable
     \/ m.desc.Version = IncVersion(m.ClusterVersion.Version)
  THEN m
  ELSE [m EXCEPT !.desc.Version = IncVersion(m.desc.Version),
                 !.desc.ModificationTime = ZeroTimestamp]

\* (*Mutable).OriginalName()
OriginalNameOfWorking(m) == m.desc.Name
OriginalName(m) ==
  IF m.ClusterVersion = NilImmutable THEN "" ELSE m.ClusterVersion.Name

\* (*Mutable).OriginalID()
OriginalIDOfWorking(m) == m.desc.ID
OriginalID(m) ==
  IF m.ClusterVersion = NilImmutable THEN InvalidID ELSE m.ClusterVersion.ID

\* (*Mutable).OriginalVersion()
OriginalVersion(m) ==
  IF m.ClusterVersion = NilImmutable THEN 0 ELSE m.ClusterVersion.Version

\* (*Mutable).ImmutableCopy()
ImmutableCopyShallow(m, h) == [imm |-> NewImmutable(m.desc), heap |-> h]
ImmutableCopy(m, h) ==
  LET c == Clone(m.desc, h)
  IN [imm |-> NewImmutable(c.desc), heap |-> c.heap]

\* (*Mutable).IsNew()
IsNew(m) == m.ClusterVersion = NilImmutable

\* (*Mutable).SetName(name)
SetNameDrainsNewName(m, h, name) ==
  LET a == GoAppend(m.desc.DrainingNames, h,
                    NameInfo(m.desc.ParentID, RootNamespaceID, name))
  IN [mut |-> [m EXCEPT !.desc.DrainingNames = a.slice, !.desc.Name = name],
      heap |-> a.heap]
SetNameOverwriteLast(m, h, name) ==
  LET s == m.desc.DrainingNames
      e == NameInfo(m.desc.ParentID, RootNamespaceID, m.desc.Name)
      a == IF s.len = 0 THEN GoAppend(s, h, e)
           ELSE [slice |-> s, heap |-> [h EXCEPT ![s.ptr][s.len] = e]]
  IN [mut |-> [m EXCEPT !.desc.DrainingNames = a.slice, !.desc.Name = name],
      heap |-> a.heap]
SetNameBumpsVersion(m, h, name) ==
  LET a == GoAppend(m.desc.DrainingNames, h,
                    NameInfo(m.desc.ParentID, RootNamespaceID, m.desc.Name))
  IN [mut |-> [m EXCEPT !.desc.DrainingNames = a.slice, !.desc.Name = name,
                        !.desc.Version = IncVersion(m.desc.Version)],
      heap |-> a.heap]
SetNameSkipsSameName(m, h, name) ==
  IF name = m.desc.Name THEN [mut |-> m, heap |-> h]
  ELSE LET a == GoAppend(m.desc.DrainingNames, h,
                         NameInfo(m.desc.ParentID, RootNamespaceID, m.desc.Name))
       IN [mut |-> [m EXCEPT !.desc.DrainingNames = a.slice, !.desc.Name = name],
           heap |-> a.heap]
SetName(m, h, name) ==
  LET a == GoAppend(m.desc.DrainingNames, h,
                    NameInfo(m.desc.ParentID, RootNamespaceID, m.desc.Name))
  IN [mut |-> [m EXCEPT !.desc.DrainingNames = a.slice, !.desc.Name = name],
      heap |-> a.heap]

\* (*Immutable).GetParentSchemaID()
GetParentSchemaIDOfParent(d) == d.ParentID
GetParentSchemaID(d) == RootNamespaceID

\* (*Immutable).GetAuditMode(): descpb.TableDescriptor_DISABLED
GetAuditMode(d) == "DISABLED"

\* (*Immutable).TypeName()
TypeName(d) == "schema"

\* (*Immutable).Adding()
Adding(d) == FALSE

\* (*Immutable).Offline()
Offline(d) == FALSE

\* (*Immutable).GetOfflineReason()
GetOfflineReason(d) == ""

\* sessiondata.PgSchemaPrefix
PgSchemaPrefix == "pg_"

\* strings.HasPrefix(s, prefix)
HasPrefix(s, prefix) ==
  Len(s) >= Len(prefix) /\ SubSeq(s, 1, Len(prefix)) = prefix

\* The error values IsSchemaNameValid returns: nil, or the pgcode.ReservedName
\* error "unacceptable schema name %q" with its detail.
NilError == [code |-> "nil", name |-> ""]
ReservedNameError(name) == [code |-> "ReservedName", name |-> name]

\* IsSchemaNameValid(name)
IsSchemaNameValidLongerThanPrefix(name) ==
  IF Len(name) > Len(PgSchemaPrefix) /\ HasPrefix(name, PgSchemaPrefix)
  THEN ReservedNameError(name)
  ELSE NilError
IsSchemaNameValid(name) ==
  IF HasPrefix(name, PgSchemaPrefix)
  THEN ReservedNameError(name)
  ELSE NilError

\* ------------------------------------------------------------------ state
VARIABLES
  pc,          \* "start" before a constructor ran, "live" after
  rec,         \* the caller's descpb.SchemaDescriptor, passed to the constructor
  list,        \* a []descpb.NameInfo the caller holds, passed to SetDrainingNames
  heap,        \* the backing arrays of every slice
  mut,         \* the *Mutable
  snapshots,   \* the results of ImmutableCopy, oldest first
  built,       \* history: which constructor built mut
  rec0,        \* history: what rec read as when the constructor ran
  snapViews,   \* history: what each ImmutableCopy result read as when returned
  incCalls,    \* history: number of MaybeIncrementVersion calls on mut
  renames,     \* history: number of SetName calls on mut
  calls,       \* number of calls made since the constructor
  last,        \* history: the last call and its arguments
  persisted,   \* transaction layer: the stored record
  txn,         \* transaction layer: each transaction's position and *Mutable
  commitLog,   \* history: the accepted commits, oldest first
  candidate,   \* the name last given to IsSchemaNameValid
  err,         \* what IsSchemaNameValid returned for candidate
  renameLog,   \* history: the names given to SetName on mut, oldest first
  replaced,    \* history: SetDrainingNames was called on mut
  ret,         \* what the capability accessors last returned
  auth         \* authorization layer: roles, memberships, owners, last ALTER

mutVars == <<pc, rec, list, heap, mut, snapshots, built, rec0, snapViews,
             incCalls, renames, calls, last, renameLog, replaced, ret>>
txnVars == <<persisted, txn, commitLog>>
nameVars == <<candidate, err>>
vars == <<pc, rec, list, heap, mut, snapshots, built, rec0, snapViews,
          incCalls, renames, calls, last, persisted, txn, commitLog,
          candidate, err, renameLog, replaced, ret, auth>>

Txns == {"t1", "t2"}

NoMutable == [desc |-> SchemaDescriptor("", InvalidID, 0, 0, ZeroTimestamp, NilSlice),
              ClusterVersion |-> NilImmutable]
NoCall == [op |-> "none", name |-> "", names |-> NilSlice]
Call(op, name, names) == [op |-> op, name |-> name, names |-> names]
\* No capability accessor has returned yet.
NoReturn == [on |-> "none"]

\* No call of IsSchemaNameValid has returned yet.
NoError == [code |-> "none", name |-> ""]
NameIdle ==
  /\ candidate = ""
  /\ err = NoError

\* The authorization layer before any statement: no second user yet, no
\* membership, table and schema owned as created.
NoAlter == [issuer |-> "", target |-> "", outcome |-> "none"]
NewAuth(create) ==
  [roles |-> {"root", "testuser"}, member |-> {}, owner |-> "root",
   schemaOwner |-> "testuser", create |-> create, alters |-> 0,
   result |-> NoAlter]
AuthIdle == auth = NewAuth({})

\* The transaction layer is idle while a single Mutable is exercised.
TxnIdle ==
  /\ persisted = View(NoMutable.desc, <<>>)
  /\ txn = [t \in Txns |-> [pc |-> "idle", mut |-> NoMutable, heap |-> <<>>,
                            calls |-> 0, bumped |-> FALSE]]
  /\ commitLog = <<>>

\* The caller's data before a constructor runs: a slice of one element with
\* spare capacity to pass to SetDrainingNames, and a record whose
\* DrainingNames is nil, full, or has spare capacity.
RecordShapes == {"nil", "full", "spare"}
ListArray == <<NameInfo(7, RootNamespaceID, "l"), ZeroNameInfo>>
RecordArray(shape) ==
  IF shape = "full" THEN <<NameInfo(7, RootNamespaceID, "r")>>
  ELSE <<NameInfo(7, RootNamespaceID, "r"), ZeroNameInfo>>

Init ==
  /\ pc = "start"
  /\ list = [ptr |-> 1, len |-> 1, cap |-> 2]
  /\ \E shape \in RecordShapes, name \in RecordNames, id \in IDs, parentID \in ParentIDs,
        version \in RecordVersions, modTime \in Timestamps :
       /\ heap = IF shape = "nil" THEN <<ListArray>>
                 ELSE <<ListArray, RecordArray(shape)>>
       /\ rec = SchemaDescriptor(name, id, parentID, version, modTime,
                  IF shape = "nil" THEN NilSlice
                  ELSE [ptr |-> 2, len |-> 1, cap |-> Len(RecordArray(shape))])
  /\ mut = NoMutable
  /\ snapshots = <<>>
  /\ built = "none"
  /\ rec0 = View(NoMutable.desc, <<>>)
  /\ snapViews = <<>>
  /\ incCalls = 0
  /\ renames = 0
  /\ calls = 0
  /\ last = NoCall
  /\ renameLog = <<>>
  /\ replaced = FALSE
  /\ ret = NoReturn
  /\ TxnIdle
  /\ NameIdle
  /\ AuthIdle

\* mut := NewMutableExisting(rec)
CallNewMutableExisting ==
  /\ pc = "start"
  /\ LET r == NewMutableExisting(rec, heap) IN
       /\ mut' = r.mut
       /\ heap' = r.heap
  /\ pc' = "live"
  /\ calls' = 0
  /\ built' = "existing"
  /\ rec0' = View(rec, heap)
  /\ last' = Call("NewMutableExisting", "", NilSlice)
  /\ UNCHANGED <<rec, list, snapshots, snapViews, incCalls, renames>>
  /\ UNCHANGED <<renameLog, replaced, ret>>
  /\ UNCHANGED txnVars
  /\ UNCHANGED nameVars
  /\ UNCHANGED auth

\* mut := NewMutableCreatedSchemaDescriptor(rec)
CallNewMutableCreatedSchemaDescriptor ==
  /\ pc = "start"
  /\ LET r == NewMutableCreatedSchemaDescriptor(rec, heap) IN
       /\ mut' = r.mut
       /\ heap' = r.heap
  /\ pc' = "live"
  /\ calls' = 0
  /\ built' = "created"
  /\ rec0' = View(rec, heap)
  /\ last' = Call("NewMutableCreatedSchemaDescriptor", "", NilSlice)
  /\ UNCHANGED <<rec, list, snapshots, snapViews, incCalls, renames>>
  /\ UNCHANGED <<renameLog, replaced, ret>>
  /\ UNCHANGED txnVars
  /\ UNCHANGED nameVars
  /\ UNCHANGED auth

\* mut.SetName(name), name drawn from names
CallSetNameOf(names) ==
  /\ pc = "live"
  /\ calls < MaxCalls
  /\ calls' = calls + 1
  /\ \E name \in names :
       LET r == SetName(mut, heap, name) IN
         /\ mut' = r.mut
         /\ heap' = r.heap
         /\ last' = Call("SetName", name, NilSlice)
         /\ renameLog' = Append(renameLog, name)
  /\ renames' = renames + 1
  /\ UNCHANGED <<pc, rec, list, snapshots, built, rec0, snapViews, incCalls>>
  /\ UNCHANGED <<replaced, ret>>
  /\ UNCHANGED txnVars
  /\ UNCHANGED nameVars
  /\ UNCHANGED auth

CallSetName == CallSetNameOf(Names)

\* mut.SetDrainingNames(names), with nil, the caller's list, or the slice of
\* the caller's record.
CallSetDrainingNames ==
  /\ pc = "live"
  /\ calls < MaxCalls
  /\ calls' = calls + 1
  /\ \E names \in {NilSlice, list, rec.DrainingNames} :
       LET r == SetDrainingNames(mut, heap, names) IN
         /\ mut' = r.mut
         /\ heap' = r.heap
         /\ last' = Call("SetDrainingNames", "", names)
  /\ UNCHANGED <<pc, rec, list, snapshots, built, rec0, snapViews, incCalls,
                 renames>>
  /\ replaced' = TRUE
  /\ UNCHANGED <<renameLog, ret>>
  /\ UNCHANGED txnVars
  /\ UNCHANGED nameVars
  /\ UNCHANGED auth

\* mut.MaybeIncrementVersion()
CallMaybeIncrementVersion ==
  /\ pc = "live"
  /\ calls < MaxCalls
  /\ calls' = calls + 1
  /\ mut' = MaybeIncrementVersion(mut)
  /\ incCalls' = incCalls + 1
  /\ last' = Call("MaybeIncrementVersion", "", NilSlice)
  /\ UNCHANGED <<pc, rec, list, heap, snapshots, built, rec0, snapViews,
                 renames>>
  /\ UNCHANGED <<renameLog, replaced, ret>>
  /\ UNCHANGED txnVars
  /\ UNCHANGED nameVars
  /\ UNCHANGED auth

\* snapshots = append(snapshots, mut.ImmutableCopy())
CallImmutableCopy ==
  /\ pc = "live"
  /\ calls < MaxCalls
  /\ calls' = calls + 1
  /\ LET r == ImmutableCopy(mut, heap) IN
       /\ snapshots' = Append(snapshots, r.imm)
       /\ snapViews' = Append(snapViews, View(mut.desc, heap))
       /\ heap' = r.heap
  /\ last' = Call("ImmutableCopy", "", NilSlice)
  /\ UNCHANGED <<pc, rec, list, mut, built, rec0, incCalls, renames>>
  /\ UNCHANGED <<renameLog, replaced, ret>>
  /\ UNCHANGED txnVars
  /\ UNCHANGED nameVars
  /\ UNCHANGED auth

\* The caller, which still holds the record it passed to the constructor,
\* assigns to an element of that record's DrainingNames.
CallerWritesRecord ==
  /\ pc = "live"
  /\ calls < MaxCalls
  /\ calls' = calls + 1
  /\ \E i \in 1 .. rec.DrainingNames.len :
       heap' = [heap EXCEPT ![rec.DrainingNames.ptr][i] =
                  NameInfo(7, RootNamespaceID, "w")]
  /\ last' = Call("CallerWritesRecord", "", NilSlice)
  /\ UNCHANGED <<pc, rec, list, mut, snapshots, built, rec0, snapViews,
                 incCalls, renames>>
  /\ UNCHANGED <<renameLog, replaced, ret>>
  /\ UNCHANGED txnVars
  /\ UNCHANGED nameVars
  /\ UNCHANGED auth

Next ==
  \/ CallNewMutableExisting
  \/ CallNewMutableCreatedSchemaDescriptor
  \/ CallSetName
  \/ CallSetDrainingNames
  \/ CallMaybeIncrementVersion
  \/ CallImmutableCopy
  \/ CallerWritesRecord

Spec == Init /\ [][Next]_vars

\* ------------------------------------------------- transaction layer
\* The transaction layer is outside schema_desc.go.  It reads the stored
\* record, hands it to NewMutableExisting, lets the transaction mutate the
\* Mutable, and at commit compares the stored version with the Mutable's
\* OriginalVersion(): equal, the working copy is stored; different, the
\* commit is rejected and the transaction retries from a fresh read.

\* While the transaction layer runs, no single Mutable is exercised.
MutIdle ==
  /\ pc = "start"
  /\ rec = NoMutable.desc
  /\ list = NilSlice
  /\ heap = <<>>
  /\ mut = NoMutable
  /\ snapshots = <<>>
  /\ built = "none"
  /\ rec0 = View(NoMutable.desc, <<>>)
  /\ snapViews = <<>>
  /\ incCalls = 0
  /\ renames = 0
  /\ calls = 0
  /\ last = NoCall
  /\ renameLog = <<>>
  /\ replaced = FALSE
  /\ ret = NoReturn

IdleTxn == [pc |-> "idle", mut |-> NoMutable, heap |-> <<>>, calls |-> 0,
            bumped |-> FALSE]

\* The record as stored when the schema was created: version 1.
InitTxn ==
  /\ MutIdle
  /\ persisted = [Name |-> "s", ID |-> 52, ParentID |-> 7, Version |-> 1,
                  ModificationTime |-> 9, DrainingNames |-> <<>>]
  /\ txn = [t \in Txns |-> IdleTxn]
  /\ commitLog = <<>>
  /\ NameIdle
  /\ AuthIdle

\* Transaction t reads the stored record and builds its Mutable from it.
TxnBegin(t) ==
  /\ txn[t].pc = "idle"
  /\ Len(commitLog) < MaxCommits
  /\ LET s == NewSlice(persisted.DrainingNames, <<>>)
         r == NewMutableExisting([persisted EXCEPT !.DrainingNames = s.slice], s.heap)
     IN txn' = [txn EXCEPT ![t] = [pc |-> "open", mut |-> r.mut, heap |-> r.heap,
                                   calls |-> 0, bumped |-> FALSE]]
  /\ UNCHANGED <<persisted, commitLog>>
  /\ UNCHANGED mutVars
  /\ UNCHANGED nameVars
  /\ UNCHANGED auth

\* Transaction t renames the schema.
TxnSetName(t) ==
  /\ txn[t].pc = "open"
  /\ txn[t].calls < MaxTxnCalls
  /\ \E name \in Names :
       LET r == SetName(txn[t].mut, txn[t].heap, name)
       IN txn' = [txn EXCEPT ![t].mut = r.mut, ![t].heap = r.heap,
                             ![t].calls = @ + 1]
  /\ UNCHANGED <<persisted, commitLog>>
  /\ UNCHANGED mutVars
  /\ UNCHANGED nameVars
  /\ UNCHANGED auth

\* Transaction t calls MaybeIncrementVersion on its Mutable.
TxnMaybeIncrementVersion(t) ==
  /\ txn[t].pc = "open"
  /\ txn[t].calls < MaxTxnCalls
  /\ txn' = [txn EXCEPT ![t].mut = MaybeIncrementVersion(@), ![t].bumped = TRUE,
                        ![t].calls = @ + 1]
  /\ UNCHANGED <<persisted, commitLog>>
  /\ UNCHANGED mutVars
  /\ UNCHANGED nameVars
  /\ UNCHANGED auth

\* Transaction t, having called MaybeIncrementVersion, asks to commit.
TxnCommit(t) ==
  /\ txn[t].pc = "open"
  /\ txn[t].bumped
  /\ IF persisted.Version = OriginalVersion(txn[t].mut)
     THEN /\ persisted' = [View(txn[t].mut.desc, txn[t].heap)
                             EXCEPT !.ModificationTime = 9]
          /\ commitLog' = Append(commitLog,
                                 [txn |-> t,
                                  read |-> OriginalVersion(txn[t].mut),
                                  was |-> persisted.Version,
                                  wrote |-> txn[t].mut.desc.Version])
          /\ txn' = [txn EXCEPT ![t].pc = "committed"]
     ELSE /\ txn' = [txn EXCEPT ![t].pc = "rejected"]
          /\ UNCHANGED <<persisted, commitLog>>
  /\ UNCHANGED mutVars
  /\ UNCHANGED nameVars
  /\ UNCHANGED auth

\* Transaction t, committed or rejected, starts over.
TxnRetry(t) ==
  /\ txn[t].pc \in {"committed", "rejected"}
  /\ txn' = [txn EXCEPT ![t] = IdleTxn]
  /\ UNCHANGED <<persisted, commitLog>>
  /\ UNCHANGED mutVars
  /\ UNCHANGED nameVars
  /\ UNCHANGED auth

NextTxn ==
  \E t \in Txns :
    \/ TxnBegin(t)
    \/ TxnSetName(t)
    \/ TxnMaybeIncrementVersion(t)
    \/ TxnCommit(t)
    \/ TxnRetry(t)

SpecTxn == InitTxn /\ [][NextTxn]_vars

\* ------------------------------------------------------- name validation
\* The characters candidate names are made of, and the names of at most
\* MaxNameLen of them.
Alphabet == {"p", "g", "_", "s"}
RECURSIVE NamesUpTo(_)
NamesUpTo(n) ==
  IF n = 0 THEN {""}
  ELSE LET shorter == NamesUpTo(n - 1)
       IN shorter \cup {s \o c : s \in shorter, c \in Alphabet}
CandidateNames == NamesUpTo(MaxNameLen)

InitName ==
  /\ MutIdle
  /\ TxnIdle
  /\ candidate \in CandidateNames
  /\ err = NoError
  /\ AuthIdle

\* err = IsSchemaNameValid(candidate)
CallIsSchemaNameValid ==
  /\ err = NoError
  /\ err' = IsSchemaNameValid(candidate)
  /\ UNCHANGED candidate
  /\ UNCHANGED mutVars
  /\ UNCHANGED txnVars
  /\ UNCHANGED auth

NextName == CallIsSchemaNameValid

SpecName == InitName /\ [][NextName]_vars

\* ------------------------------------------------------- version skew
\* Version and ClusterVersion are exported: a Mutable can reach
\* MaybeIncrementVersion with any working and baseline version.  rec keeps
\* the working copy as it was at the start.
InitSkew ==
  /\ pc = "live"
  /\ list = NilSlice
  /\ heap = <<>>
  /\ \E w \in Versions, b \in Versions, modTime \in {ZeroTimestamp, 9} :
       /\ rec = SchemaDescriptor("s", 52, 7, w, modTime, NilSlice)
       /\ mut = [desc |-> SchemaDescriptor("s", 52, 7, w, modTime, NilSlice),
                 ClusterVersion |-> SchemaDescriptor("s", 52, 7, b, 9, NilSlice)]
       /\ rec0 = View(SchemaDescriptor("s", 52, 7, b, 9, NilSlice), <<>>)
  /\ snapshots = <<>>
  /\ built = "skewed"
  /\ snapViews = <<>>
  /\ incCalls = 0
  /\ renames = 0
  /\ calls = 0
  /\ last = NoCall
  /\ renameLog = <<>>
  /\ replaced = FALSE
  /\ ret = NoReturn
  /\ TxnIdle
  /\ NameIdle
  /\ AuthIdle

NextSkew == CallMaybeIncrementVersion

SpecSkew == InitSkew /\ [][NextSkew]_vars

\* ------------------------------------------------- capability accessors
\* What the six accessors return on descriptor d, called on target.
Returned(target, d) ==
  [on |-> target,
   GetParentSchemaID |-> GetParentSchemaID(d),
   GetAuditMode |-> GetAuditMode(d),
   TypeName |-> TypeName(d),
   Adding |-> Adding(d),
   Offline |-> Offline(d),
   GetOfflineReason |-> GetOfflineReason(d)]

\* The six accessors are called on the Mutable (through its embedded
\* Immutable) or on an ImmutableCopy result.
CallAccessors ==
  /\ pc = "live"
  /\ calls < MaxCalls
  /\ calls' = calls + 1
  /\ \/ /\ ret' = Returned("Mutable", mut.desc)
        /\ last' = Call("Accessors", "Mutable", NilSlice)
     \/ \E i \in 1 .. Len(snapshots) :
          /\ ret' = Returned("Immutable", snapshots[i])
          /\ last' = Call("Accessors", "Immutable", NilSlice)
  /\ UNCHANGED <<pc, rec, list, heap, mut, snapshots, built, rec0, snapViews,
                 incCalls, renames, renameLog, replaced>>
  /\ UNCHANGED txnVars
  /\ UNCHANGED nameVars
  /\ UNCHANGED auth

NextAccess ==
  \/ Next
  \/ CallAccessors

SpecAccess == Init /\ [][NextAccess]_vars

\* -------------------------------------------------- rename after validation
\* The names a statement asks to rename a schema to.
RenameNames == {"t", "pg", "pg_", "pg_s"}

\* The caller of SetName as the name policy requires it: it gives the new
\* name to IsSchemaNameValid first and calls mut.SetName(name) only when
\* that returned nil; otherwise it reports the error and calls nothing.
CallRenameIfValid ==
  /\ pc = "live"
  /\ calls < MaxCalls
  /\ calls' = calls + 1
  /\ \E name \in RenameNames :
       /\ candidate' = name
       /\ err' = IsSchemaNameValid(name)
       /\ last' = Call("RenameIfValid", name, NilSlice)
       /\ IF IsSchemaNameValid(name) = NilError
          THEN LET r == SetName(mut, heap, name) IN
                 /\ mut' = r.mut
                 /\ heap' = r.heap
                 /\ renameLog' = Append(renameLog, name)
                 /\ renames' = renames + 1
          ELSE UNCHANGED <<mut, heap, renameLog, renames>>
  /\ UNCHANGED <<pc, rec, list, snapshots, built, rec0, snapViews, incCalls>>
  /\ UNCHANGED <<replaced, ret>>
  /\ UNCHANGED txnVars
  /\ UNCHANGED auth

NextRename ==
  \/ CallNewMutableExisting
  \/ CallNewMutableCreatedSchemaDescriptor
  \/ CallRenameIfValid
  \/ CallSetNameOf(RenameNames)
  \/ CallMaybeIncrementVersion

SpecRename == Init /\ [][NextRename]_vars

\* ---------------------------------------------------- authorization layer
\* ALTER TABLE ... OWNER TO is decided outside schema_desc.go, by the
\* authorization layer; the logic test kept with the source shows its
\* verdicts.  A table t in schema s of owner schemaOwner; roles are granted
\* to and revoked from one another; root has superuser standing, and so has
\* every member of root.
AllRoles == {"root", "testuser", "testuser2"}
TargetRoles == AllRoles \cup {"fake_user"}

RECURSIVE MemberWithin(_, _, _, _)
\* a is b, or a member of b through at most n grants of member.
MemberWithin(member, a, b, n) ==
  \/ a = b
  \/ /\ n > 0
     /\ \E c \in AllRoles : <<a, c>> \in member /\ MemberWithin(member, c, b, n - 1)
MemberOf(a, b) == MemberWithin(auth.member, a, b, Cardinality(AllRoles))

IsSuperuser(role) == MemberOf(role, "root")

\* role holds CREATE on the schema: granted to it, or to a role it is a
\* member of, or held as the schema's owner or as a superuser.
HoldsCreate(role) ==
  \/ IsSuperuser(role)
  \/ \E g \in AllRoles : MemberOf(role, g) /\ (g \in auth.create \/ g = auth.schemaOwner)

\* issuer owns the table, itself or as a member of the owner, or is a superuser.
OwnsTable(issuer) == MemberOf(issuer, auth.owner) \/ IsSuperuser(issuer)

\* The verdict of ALTER TABLE s.t OWNER TO target issued by issuer.
AlterOwnerVerdictNoCreateCheck(issuer, target) ==
  IF target \notin auth.roles THEN "role does not exist"
  ELSE IF ~MemberOf(issuer, target) THEN "must be member of role"
  ELSE IF ~OwnsTable(issuer) THEN "must be owner of table"
  ELSE "ok"
AlterOwnerVerdict(issuer, target) ==
  IF target \notin auth.roles THEN "role does not exist"
  ELSE IF ~MemberOf(issuer, target) THEN "must be member of role"
  ELSE IF ~OwnsTable(issuer) THEN "must be owner of table"
  ELSE IF ~HoldsCreate(target) THEN "does not have CREATE privilege on schema"
  ELSE "ok"

InitAuth ==
  /\ MutIdle
  /\ TxnIdle
  /\ NameIdle
  /\ \E create \in {{}, {"testuser2"}} : auth = NewAuth(create)

\* CREATE USER role
CreateUser ==
  /\ \E role \in AllRoles \ auth.roles :
       auth' = [auth EXCEPT !.roles = @ \cup {role}]
  /\ UNCHANGED <<mutVars, txnVars, nameVars>>

\* GRANT role TO member (memberships never form a cycle)
GrantRole ==
  /\ \E m \in auth.roles, role \in auth.roles :
       /\ m # role
       /\ ~MemberOf(role, m)
       /\ auth' = [auth EXCEPT !.member = @ \cup {<<m, role>>}]
  /\ UNCHANGED <<mutVars, txnVars, nameVars>>

\* REVOKE role FROM member
RevokeRole ==
  /\ \E pair \in auth.member :
       auth' = [auth EXCEPT !.member = @ \ {pair}]
  /\ UNCHANGED <<mutVars, txnVars, nameVars>>

\* issuer runs ALTER TABLE s.t OWNER TO target
AlterOwner ==
  /\ auth.alters < MaxAlters
  /\ \E issuer \in auth.roles, target \in TargetRoles :
       LET verdict == AlterOwnerVerdict(issuer, target) IN
         auth' = [auth EXCEPT
                    !.owner = IF verdict = "ok" THEN target ELSE @,
                    !.alters = @ + 1,
                    !.result = [issuer |-> issuer, target |-> target,
                                outcome |-> verdict]]
  /\ UNCHANGED <<mutVars, txnVars, nameVars>>

NextAuth ==
  \/ CreateUser
  \/ GrantRole
  \/ RevokeRole
  \/ AlterOwner

SpecAuth == InitAuth /\ [][NextAuth]_vars

\* ------------------------------------------------------------- properties
\* The working copy's DrainingNames, element by element.
Ledger == Elems(mut.desc.DrainingNames, heap)
\* The working copy and the ClusterVersion as they read.
WorkingView == View(mut.desc, heap)
BaselineView ==
  IF mut.ClusterVersion = NilImmutable THEN NilImmutable
  ELSE View(mut.ClusterVersion, heap)

IsPrefix(a, b) == Len(a) <= Len(b) /\ SubSeq(b, 1, Len(a)) = a

\* C1: on a Mutable built by NewMutableExisting from a record of version v,
\* once MaybeIncrementVersion has been called at least once, in any
\* interleaving with the other calls, the working Version is v + 1 (computed
\* in descpb.DescriptorVersion), whatever the number of calls.
C1_IncrementIsIdempotent ==
  (built = "existing" /\ incCalls >= 1)
    => mut.desc.Version = IncVersion(rec0.Version)

C1_Witness ==
  /\ built = "existing"
  /\ incCalls >= 2
  /\ renames >= 1
  /\ mut.desc.Version = rec0.Version + 1

\* C2: the stored Version grows by exactly 1 with every accepted commit and
\* never otherwise, and no two accepted commits were built from the same
\* stored version: of the transactions that read one version, at most one
\* commits.
C2_OneCommitPerVersion ==
  /\ \A i \in 1 .. Len(commitLog) :
       /\ commitLog[i].read = commitLog[i].was
       /\ commitLog[i].wrote = commitLog[i].was + 1
       /\ i > 1 => commitLog[i].was = commitLog[i - 1].wrote
  /\ \A i, j \in 1 .. Len(commitLog) :
       i # j => commitLog[i].read # commitLog[j].read
  /\ Len(commitLog) >= 1 => persisted.Version = commitLog[Len(commitLog)].wrote
  /\ persisted.Version = 1 + Len(commitLog)
  /\ \A t \in Txns :
       txn[t].pc = "rejected" => OriginalVersion(txn[t].mut) < persisted.Version

C2_Witness ==
  /\ Len(commitLog) = 2
  /\ commitLog[1].txn # commitLog[2].txn
  /\ \E t \in Txns : txn[t].pc = "rejected"

\* C3: on a Mutable built by NewMutableCreatedSchemaDescriptor, Version and
\* ModificationTime stay what the constructor was given and IsNew() stays
\* true, whatever calls are made.
C3_NoBaselineNoIncrement ==
  built = "created"
    => /\ mut.desc.Version = rec0.Version
       /\ mut.desc.ModificationTime = rec0.ModificationTime
       /\ IsNew(mut)

C3_Witness ==
  /\ built = "created"
  /\ incCalls >= 2
  /\ renames >= 1
  /\ last.op = "SetDrainingNames"

\* C4: a SetName(newName) step leaves DrainingNames as it was with one entry
\* appended, {ParentID, root namespace ID, Name before the call}, and leaves
\* Name equal to newName.
C4_SetNameAppendsOldName ==
  [][(last'.op = "SetName" /\ calls' = calls + 1)
       => /\ Ledger' = Append(Ledger, NameInfo(mut.desc.ParentID, RootNamespaceID,
                                               mut.desc.Name))
          /\ mut'.desc.Name = last'.name]_vars

C4_Witness ==
  /\ last.op = "SetName"
  /\ renames >= 2
  /\ Len(Ledger) >= 3
  /\ Ledger[Len(Ledger)].Name # mut.desc.Name

\* C5 as stated: every call on the Mutable, SetDrainingNames included, leaves
\* the earlier DrainingNames a prefix of the later one.
C5_LedgerNeverPruned ==
  [][last'.op \in {"SetName", "SetDrainingNames", "MaybeIncrementVersion",
                   "ImmutableCopy"}
       => IsPrefix(Ledger, Ledger')]_vars

\* C5 as amended: SetName, MaybeIncrementVersion and ImmutableCopy leave the
\* earlier DrainingNames a prefix of the later one; SetDrainingNames replaces
\* the ledger by its argument.
C5_LedgerKeptBetweenReplacements ==
  [][(last'.op \in {"SetName", "MaybeIncrementVersion", "ImmutableCopy"}
        => IsPrefix(Ledger, Ledger'))
     /\ (last'.op = "SetDrainingNames" => Ledger' = Elems(last'.names, heap))]_vars

C5_Witness ==
  /\ renames >= 2
  /\ incCalls >= 1
  /\ Len(snapshots) >= 1
  /\ Len(Ledger) >= 3

\* C6 as stated: IsNew(), built without a baseline, and OriginalID() being
\* the invalid ID are equivalent, whatever the ID of the record.
C6_IsNewIffInvalidOriginalID ==
  pc = "live"
    => /\ IsNew(mut) <=> built = "created"
       /\ IsNew(mut) <=> OriginalID(mut) = InvalidID

\* C6 as amended: IsNew() holds exactly when the Mutable was built without a
\* baseline, and then OriginalID() is the invalid ID; OriginalID() being the
\* invalid ID implies IsNew() when the record given to NewMutableExisting
\* has a valid ID.
C6_IsNewIffNoBaseline ==
  pc = "live"
    => /\ IsNew(mut) <=> built = "created"
       /\ IsNew(mut) => OriginalID(mut) = InvalidID
       /\ (rec0.ID # InvalidID /\ OriginalID(mut) = InvalidID) => IsNew(mut)

C6_Witness ==
  /\ built = "existing"
  /\ calls >= 1
  /\ rec0.ID = InvalidID
  /\ OriginalID(mut) = InvalidID
  /\ ~IsNew(mut)

\* C7: every ImmutableCopy result reads as the working copy read when
\* ImmutableCopy was called, then and in every later state.
C7_SnapshotsAreStable ==
  /\ Len(snapshots) = Len(snapViews)
  /\ \A i \in 1 .. Len(snapshots) : View(snapshots[i], heap) = snapViews[i]

C7_Witness ==
  /\ Len(snapshots) >= 1
  /\ Len(snapViews[1].DrainingNames) >= 1
  /\ WorkingView.Name # snapViews[1].Name
  /\ WorkingView.Version # snapViews[1].Version
  /\ WorkingView.DrainingNames # snapViews[1].DrainingNames

\* C8: OriginalName(), OriginalID() and OriginalVersion() return the Name, ID
\* and Version of the record given to NewMutableExisting, and "", the
\* invalid ID and 0 on a Mutable built by NewMutableCreatedSchemaDescriptor,
\* whatever calls were made since.
C8_OriginalsReportBaseline ==
  pc = "live"
    => IF built = "existing"
       THEN /\ OriginalName(mut) = rec0.Name
            /\ OriginalID(mut) = rec0.ID
            /\ OriginalVersion(mut) = rec0.Version
       ELSE /\ OriginalName(mut) = ""
            /\ OriginalID(mut) = InvalidID
            /\ OriginalVersion(mut) = 0

C8_Witness ==
  /\ built = "existing"
  /\ renames >= 1
  /\ incCalls >= 1
  /\ mut.desc.Name # rec0.Name
  /\ mut.desc.Version # rec0.Version
  /\ OriginalName(mut) = "s"

\* C9 as stated: after NewMutableExisting(rec), a write the caller makes into
\* rec's DrainingNames changes what neither the ClusterVersion nor the
\* working copy reads as.
C9_ExistingIsIsolatedFromRecord ==
  [][(built = "existing" /\ last'.op = "CallerWritesRecord")
       => /\ BaselineView' = BaselineView
          /\ WorkingView' = WorkingView]_vars

\* C10: a SetDrainingNames(names) step leaves DrainingNames equal to names,
\* element by element, and every other field of the working copy, and the
\* ClusterVersion, as they were.
C10_SetDrainingNamesReplaces ==
  [][last'.op = "SetDrainingNames"
       => /\ Ledger' = Elems(last'.names, heap)
          /\ [WorkingView' EXCEPT !.DrainingNames = <<>>]
               = [WorkingView EXCEPT !.DrainingNames = <<>>]
          /\ BaselineView' = BaselineView]_vars

C10_Witness ==
  /\ last.op = "SetDrainingNames"
  /\ last.names = NilSlice
  /\ renames >= 1
  /\ built = "existing"
  /\ Ledger = <<>>

\* The name starts with the characters p, g, _ in this order.
StartsWithPgUnderscore(name) ==
  /\ Len(name) >= 3
  /\ SubSeq(name, 1, 1) = "p"
  /\ SubSeq(name, 2, 2) = "g"
  /\ SubSeq(name, 3, 3) = "_"

\* C11: IsSchemaNameValid returns the reserved-name error for exactly the
\* names that start with "pg_", the prefix itself included, and nil for every
\* other name.
C11_ReservedPrefixRejected ==
  err # NoError
    => IF StartsWithPgUnderscore(candidate)
       THEN err = ReservedNameError(candidate)
       ELSE err = NilError

C11_Witness ==
  /\ candidate = "pg_"
  /\ err = ReservedNameError("pg_")

\* C12: a rename the caller validates first either fails in the validator,
\* for the names that start with "pg_", and then leaves the Mutable and the
\* heap as they were, or passes it and then has the whole effect of SetName:
\* one entry for the old name appended and Name replaced.  SetName called
\* directly takes every name, reserved or not.
C12_RejectedRenameChangesNothing ==
  [][/\ last'.op = "RenameIfValid"
        => IF StartsWithPgUnderscore(last'.name)
           THEN /\ err'.code = "ReservedName"
                /\ mut' = mut
                /\ heap' = heap
           ELSE /\ err' = NilError
                /\ Elems(mut'.desc.DrainingNames, heap')
                     = Append(Elems(mut.desc.DrainingNames, heap),
                              NameInfo(mut.desc.ParentID, RootNamespaceID,
                                       mut.desc.Name))
                /\ mut'.desc.Name = last'.name
                /\ [mut'.desc EXCEPT !.Name = "", !.DrainingNames = NilSlice]
                     = [mut.desc EXCEPT !.Name = "", !.DrainingNames = NilSlice]
                /\ mut'.ClusterVersion = mut.ClusterVersion
     /\ last'.op = "SetName"
        => /\ mut'.desc.Name = last'.name
           /\ Len(Elems(mut'.desc.DrainingNames, heap'))
                = Len(Elems(mut.desc.DrainingNames, heap)) + 1]_vars

C12_Witness ==
  /\ last.op = "RenameIfValid"
  /\ err = ReservedNameError("pg_s")
  /\ renames >= 1
  /\ incCalls >= 1
  /\ mut.desc.Name = "pg"
  /\ Len(Elems(mut.desc.DrainingNames, heap)) = renames + Len(rec0.DrainingNames)

\* C13: whatever calls were made before, the six accessors return the root
\* namespace ID, DISABLED, "schema", false, false and "", on the Mutable and
\* on an ImmutableCopy result, and calling them leaves the Mutable, the heap
\* and the ImmutableCopy results as they were.
C13_AccessorsConstantAndPure ==
  [][last'.op = "Accessors"
       => /\ ret'.on = last'.name
          /\ ret'.GetParentSchemaID = RootNamespaceID
          /\ ret'.GetAuditMode = "DISABLED"
          /\ ret'.TypeName = "schema"
          /\ ret'.Adding = FALSE
          /\ ret'.Offline = FALSE
          /\ ret'.GetOfflineReason = ""
          /\ mut' = mut
          /\ heap' = heap
          /\ snapshots' = snapshots]_vars

C13_Witness ==
  /\ last.op = "Accessors"
  /\ ret.on = "Immutable"
  /\ renames >= 1
  /\ incCalls >= 1
  /\ mut.desc.Version # rec0.Version

\* C15: a MaybeIncrementVersion step changes Version exactly when the
\* Mutable has a baseline and Version is not the baseline version + 1; then
\* it leaves ModificationTime unset, and otherwise leaves it as it was.
C15_TimeResetExactlyOnBump ==
  [][last'.op = "MaybeIncrementVersion"
       => /\ (mut'.desc.Version # mut.desc.Version)
               <=> (built = "existing"
                    /\ mut.desc.Version # IncVersion(rec0.Version))
          /\ IF mut'.desc.Version # mut.desc.Version
             THEN mut'.desc.ModificationTime = ZeroTimestamp
             ELSE mut'.desc.ModificationTime = mut.desc.ModificationTime]_vars

C15_Witness ==
  /\ last.op = "MaybeIncrementVersion"
  /\ built = "existing"
  /\ incCalls >= 2
  /\ rec0.ModificationTime # ZeroTimestamp
  /\ mut.desc.ModificationTime = ZeroTimestamp

\* C16: with a baseline of version b and a working Version w, whatever the
\* distance between them, a MaybeIncrementVersion step leaves w as it is
\* exactly when w is b + 1, and otherwise makes it w + 1 (both sums in
\* descpb.DescriptorVersion).
C16_GuardIsStrictEquality ==
  [][last'.op = "MaybeIncrementVersion"
       => LET b == mut.ClusterVersion.Version
              w == mut.desc.Version
          IN /\ (mut'.desc.Version = w) <=> (w = (b + 1) % VersionModulus)
             /\ (mut'.desc.Version # w)
                  => mut'.desc.Version = (w + 1) % VersionModulus
             /\ mut'.ClusterVersion = mut.ClusterVersion]_vars

C16_Witness ==
  /\ built = "skewed"
  /\ incCalls = 2
  /\ rec.Version + 1 < mut.ClusterVersion.Version
  /\ mut.desc.Version = rec.Version + 2

\* C17 as stated: on a Mutable built by NewMutableExisting, whatever the
\* version of the record, a MaybeIncrementVersion step leaves Version no
\* smaller than it was and no smaller than the record's version.
C17_VersionNeverDecreases ==
  [][(built = "existing" /\ last'.op = "MaybeIncrementVersion")
       => /\ mut'.desc.Version >= mut.desc.Version
          /\ mut'.desc.Version >= rec0.Version]_vars

\* C18: a SetName or SetDrainingNames step leaves Version, ModificationTime,
\* ID and ParentID as they were; a MaybeIncrementVersion step leaves Name,
\* DrainingNames, ID and ParentID as they were; so ID and ParentID are those
\* the constructor was given, and as long as MaybeIncrementVersion was not
\* called Version is the record's.
C18_IdentityAndVersionAreSeparate ==
  [][/\ last'.op \in {"SetName", "SetDrainingNames"}
        => /\ mut'.desc.Version = mut.desc.Version
           /\ mut'.desc.ModificationTime = mut.desc.ModificationTime
           /\ mut'.desc.ID = mut.desc.ID
           /\ mut'.desc.ParentID = mut.desc.ParentID
     /\ last'.op = "MaybeIncrementVersion"
        => /\ mut'.desc.Name = mut.desc.Name
           /\ mut'.desc.DrainingNames = mut.desc.DrainingNames
           /\ Ledger' = Ledger
           /\ mut'.desc.ID = mut.desc.ID
           /\ mut'.desc.ParentID = mut.desc.ParentID
     /\ pc' = "live"
        => /\ mut'.desc.ID = rec0'.ID
           /\ mut'.desc.ParentID = rec0'.ParentID
           /\ incCalls' = 0 => mut'.desc.Version = rec0'.Version]_vars

C18_Witness ==
  /\ built = "existing"
  /\ renames >= 2
  /\ replaced
  /\ incCalls = 0
  /\ mut.desc.Name # rec0.Name
  /\ mut.desc.Version = OriginalVersion(mut)

\* The names of the entries of a ledger.
LedgerNames(entries) == [i \in 1 .. Len(entries) |-> entries[i].Name]

\* C19: on a Mutable built by NewMutableExisting from a record with d
\* draining names, after SetName was called with n1..nk, k >= 1, and
\* SetDrainingNames was not called, DrainingNames is the record's d entries
\* followed by k entries named OriginalName(), n1, ..., n(k-1), and Name is
\* nk, also when names repeat.
C19_LedgerIsRenameHistory ==
  (built = "existing" /\ ~replaced /\ Len(renameLog) >= 1)
    => LET k == Len(renameLog)
           d == Len(rec0.DrainingNames)
       IN /\ Len(Ledger) = d + k
          /\ SubSeq(Ledger, 1, d) = rec0.DrainingNames
          /\ LedgerNames(SubSeq(Ledger, d + 1, d + k))
               = <<OriginalName(mut)>> \o SubSeq(renameLog, 1, k - 1)
          /\ \A i \in d + 1 .. d + k :
               /\ Ledger[i].ParentID = mut.desc.ParentID
               /\ Ledger[i].ParentSchemaID = RootNamespaceID
          /\ mut.desc.Name = renameLog[k]

C19_Witness ==
  /\ built = "existing"
  /\ ~replaced
  /\ Len(rec0.DrainingNames) = 1
  /\ Len(renameLog) = 3
  /\ renameLog[1] = renameLog[2]
  /\ renameLog[3] = OriginalName(mut)
  /\ Ledger[Len(Ledger)].Name = renameLog[2]
  /\ Ledger[2].Name = mut.desc.Name

====
